---------------------------- MODULE Spec2Model ----------------------------
(***************************************************************************)
(* Model of the FT232RL UART adapter that emulates the Red Panda USB       *)
(* interface (porting/FT232RL/PC/ft232rl_python_wrapper.py):               *)
(*   - FT232RL_Frame: the 6-byte-header + payload frame, XOR checksum;     *)
(*   - the CAN bulk packer of can_send_many and the parser of can_recv;    *)
(*   - FT232RL_PandaAdapter: connect / disconnect, _send_frame,            *)
(*     _receive_frame, _control_transfer and the commands built on them.   *)
(* Python bytes are sequences of integers 0..255.                          *)
(***************************************************************************)
EXTENDS Integers, Sequences, FiniteSets, TLC

VARIABLES
    self,       \* the FT232RL_PandaAdapter object's fields
    rxq,        \* bytes waiting in the serial channel's input buffer
    txq,        \* byte strings handed to serial.write, oldest first
    ret,        \* the last public operation and what it returned
    history,    \* what has happened to the session so far (observer)
    frame_in,   \* frame codec: the frame handed to pack
    wire,       \* frame codec: the bytes pack produced
    rxbuf,      \* frame codec: the buffer handed to unpack, and how it was damaged
    decoded,    \* frame codec: what unpack returned
    batch,      \* CAN codec: the message list handed to can_send_many
    packed,     \* CAN codec: the packer's output (bytes and count)
    parsed,     \* CAN codec: the parser's input length and output
    lock,       \* self.lock: 0 when free, else the thread that holds it
    threads     \* the threads inside _send_frame: position and local variables

vars ==
    <<self, rxq, txq, ret, history, frame_in, wire, rxbuf, decoded, batch, packed, parsed,
      lock, threads>>

threadVars == <<lock, threads>>
sessionVars == <<self, rxq, txq, ret, history, threadVars>>
frameVars == <<frame_in, wire, rxbuf, decoded>>
canVars == <<batch, packed, parsed>>

\* Python's None where an object (a frame) is expected
None == [none |-> TRUE]

(***************************************************************************)
(* Bit operations on non-negative integers.                                *)
(***************************************************************************)
\* i XOR j for 0 <= i, j <= 15, at [i + 1][j + 1]
NibbleXor ==
    <<<<0, 1, 2, 3, 4, 5, 6, 7, 8, 9, 10, 11, 12, 13, 14, 15>>,
      <<1, 0, 3, 2, 5, 4, 7, 6, 9, 8, 11, 10, 13, 12, 15, 14>>,
      <<2, 3, 0, 1, 6, 7, 4, 5, 10, 11, 8, 9, 14, 15, 12, 13>>,
      <<3, 2, 1, 0, 7, 6, 5, 4, 11, 10, 9, 8, 15, 14, 13, 12>>,
      <<4, 5, 6, 7, 0, 1, 2, 3, 12, 13, 14, 15, 8, 9, 10, 11>>,
      <<5, 4, 7, 6, 1, 0, 3, 2, 13, 12, 15, 14, 9, 8, 11, 10>>,
      <<6, 7, 4, 5, 2, 3, 0, 1, 14, 15, 12, 13, 10, 11, 8, 9>>,
      <<7, 6, 5, 4, 3, 2, 1, 0, 15, 14, 13, 12, 11, 10, 9, 8>>,
      <<8, 9, 10, 11, 12, 13, 14, 15, 0, 1, 2, 3, 4, 5, 6, 7>>,
      <<9, 8, 11, 10, 13, 12, 15, 14, 1, 0, 3, 2, 5, 4, 7, 6>>,
      <<10, 11, 8, 9, 14, 15, 12, 13, 2, 3, 0, 1, 6, 7, 4, 5>>,
      <<11, 10, 9, 8, 15, 14, 13, 12, 3, 2, 1, 0, 7, 6, 5, 4>>,
      <<12, 13, 14, 15, 8, 9, 10, 11, 4, 5, 6, 7, 0, 1, 2, 3>>,
      <<13, 12, 15, 14, 9, 8, 11, 10, 5, 4, 7, 6, 1, 0, 3, 2>>,
      <<14, 15, 12, 13, 10, 11, 8, 9, 6, 7, 4, 5, 2, 3, 0, 1>>,
      <<15, 14, 13, 12, 11, 10, 9, 8, 7, 6, 5, 4, 3, 2, 1, 0>>>>

\* a ^ b, four bits at a time
RECURSIVE BitXor(_, _)
BitXor(a, b) ==
    IF a = 0 THEN b
    ELSE IF b = 0 THEN a
    ELSE NibbleXor[(a % 16) + 1][(b % 16) + 1] + (16 * BitXor(a \div 16, b \div 16))

RECURSIVE BitAnd(_, _)
BitAnd(a, b) ==
    IF a = 0 \/ b = 0 THEN 0
    ELSE (((a % 2) * (b % 2)) + (2 * BitAnd(a \div 2, b \div 2)))

BitOr(a, b) == (a + b) - BitAnd(a, b)

RECURSIVE Pow2(_)
Pow2(n) == IF n = 0 THEN 1 ELSE 2 * Pow2(n - 1)

ShiftRight(a, n) == a \div Pow2(n)

ShiftLeft(a, n) == a * Pow2(n)

\* checksum ^= byte, over the first n bytes of a byte string. XOR is
\* associative, so the loop's left-to-right fold is computed by halves, which
\* keeps the evaluation of a 250-byte frame shallow.
RECURSIVE XorFoldTo(_, _)
XorFoldTo(bytes, n) ==
    IF n = 0 THEN 0
    ELSE IF n = 1 THEN bytes[1]
    ELSE LET h == n \div 2
         IN  BitXor(XorFoldTo(SubSeq(bytes, 1, h), h),
                    XorFoldTo(SubSeq(bytes, h + 1, n), n - h))

XorFold(bytes) == XorFoldTo(bytes, Len(bytes))

\* Python's data[a:b] for 0 <= a (0-based, end exclusive, clamped to the length)
Slice(data, a, b) ==
    SubSeq(data, a + 1, IF b < Len(data) THEN b ELSE Len(data))

\* struct.pack('<H', v) and struct.pack('<I', v)
PackLE16(v) == <<v % 256, (v \div 256) % 256>>

PackLE32(v) ==
    <<v % 256, (v \div 256) % 256, (v \div 65536) % 256, (v \div 16777216) % 256>>

\* struct.unpack('<I', b)[0]
UnpackLE32(b) == b[1] + (256 * b[2]) + (65536 * b[3]) + (16777216 * b[4])

(***************************************************************************)
(* FT232RL_Frame                                                           *)
(***************************************************************************)
SYNC == 170

FRAME_CONTROL == 0
FRAME_BULK_IN == 1
FRAME_SERIAL == 2
FRAME_BULK_OUT == 3
FRAME_STATUS == 4
FRAME_ERROR == 5
FRAME_CHUNK == 6
FRAME_ACK == 7

FrameTypes ==
    {FRAME_CONTROL, FRAME_BULK_IN, FRAME_SERIAL, FRAME_BULK_OUT,
     FRAME_STATUS, FRAME_ERROR, FRAME_CHUNK, FRAME_ACK}

CMD_RESET == 192
CMD_GET_VERSION == 208
CMD_GET_HEALTH == 222
CMD_SET_SAFETY_MODE == 220
CMD_SET_CAN_SPEED == 221
CMD_HEARTBEAT == 241

\* SafetyMode.NO_OUTPUT
NO_OUTPUT == 1

\* _calculate_checksum: XOR of the five header bytes and the payload
calculate_checksum(f) ==
    XorFold(<<f.sync, f.frame_type, f.sequence, f.length, f.flags>> \o f.payload)

\* FT232RL_Frame.__init__
Frame(frame_type, sequence, payload, flags) ==
    LET f0 == [sync |-> SYNC, frame_type |-> frame_type, sequence |-> sequence,
               length |-> Len(payload), flags |-> flags, payload |-> payload,
               checksum |-> 0]
    IN  [f0 EXCEPT !.checksum = calculate_checksum(f0)]

\* a mutated pack: the stored checksum is written without being recomputed
pack_stale_checksum(f) ==
    <<f.sync, f.frame_type, f.sequence, f.length, f.flags, f.checksum>> \o f.payload

\* FT232RL_Frame.pack
pack(f) ==
    <<f.sync, f.frame_type, f.sequence, f.length, f.flags, calculate_checksum(f)>>
        \o f.payload

Truncated == "Truncated"
BadSync == "BadSync"
ChecksumMismatch == "ChecksumMismatch"
NoError == "NoError"

Rejected(why) == [ok |-> FALSE, err |-> why, frame |-> None]

\* a mutated unpack: the sync byte is not checked
unpack_no_sync(data) ==
    IF Len(data) < 6 THEN Rejected(Truncated)
    ELSE IF Len(data) < 6 + data[4] THEN Rejected(Truncated)
    ELSE LET payload == Slice(data, 6, 6 + data[4])
         IN  IF XorFold(Slice(data, 0, 5) \o payload) # data[6]
             THEN Rejected(ChecksumMismatch)
             ELSE [ok |-> TRUE, err |-> NoError,
                   frame |-> Frame(data[2], data[3], payload, data[5])]

\* unpack as it would be without the checksum test
unpack_no_checksum(data) ==
    IF Len(data) < 6 THEN Rejected(Truncated)
    ELSE IF data[1] # SYNC THEN Rejected(BadSync)
    ELSE IF Len(data) < 6 + data[4] THEN Rejected(Truncated)
    ELSE [ok |-> TRUE, err |-> NoError,
          frame |-> Frame(data[2], data[3], Slice(data, 6, 6 + data[4]), data[5])]

\* FT232RL_Frame.unpack; every "return None" is tagged with the fault it reports
unpack(data) ==
    IF Len(data) < 6 THEN Rejected(Truncated)
    ELSE LET sync == data[1]
             frame_type == data[2]
             sequence == data[3]
             length == data[4]
             flags == data[5]
             checksum == data[6]
         IN  IF sync # SYNC THEN Rejected(BadSync)
             ELSE IF Len(data) < 6 + length THEN Rejected(Truncated)
             ELSE LET payload == Slice(data, 6, 6 + length)
                      calc_checksum == XorFold(Slice(data, 0, 5) \o payload)
                  IN  IF calc_checksum # checksum THEN Rejected(ChecksumMismatch)
                      ELSE [ok |-> TRUE, err |-> NoError,
                            frame |-> Frame(frame_type, sequence, payload, flags)]

(***************************************************************************)
(* CAN bulk payload: the packer of can_send_many, the parser of can_recv   *)
(***************************************************************************)
\* CANMessage.__init__ (the timestamp, time.time(), is not carried on the wire
\* and takes part in no comparison)
CANMessage(addr, data, bus, extended, fd) ==
    [addr |-> addr, data |-> data, bus |-> bus, extended |-> extended, fd |-> fd]

MSG_BUDGET == 20
FRAME_SIZE_LIMIT == 250
EXTENDED_BIT == 1073741824
EXT_ADDR_MASK == 536870911
STD_ADDR_MASK == 2047
STD_ADDR_SHIFT == 18

\* lines 340-356: one message packed in Red Panda format
pack_message(msg) ==
    LET dlc == IF Len(msg.data) > 8 THEN 15 ELSE Len(msg.data)
        header0 == BitOr(BitOr(ShiftLeft(dlc, 4), ShiftLeft(msg.bus, 1)),
                         IF msg.fd THEN 1 ELSE 0)
        addr_bytes == PackLE32(BitOr(msg.addr, IF msg.extended THEN EXTENDED_BIT ELSE 0))
        msg_data == <<header0>> \o Slice(addr_bytes, 0, 4) \o Slice(msg.data, 0, dlc)
        checksum == XorFold(msg_data)
    IN  msg_data \o <<checksum>>

\* the loop as it would be if it compared the size of the message at hand,
\* not a fixed budget, with the limit
RECURSIVE pack_loop_exact_size(_, _, _, _)
pack_loop_exact_size(can_messages, i, packed_data, count) ==
    IF i > Len(can_messages) THEN [data |-> packed_data, count |-> count]
    ELSE IF Len(packed_data) + Len(pack_message(can_messages[i])) > FRAME_SIZE_LIMIT
         THEN [data |-> packed_data, count |-> count]
         ELSE pack_loop_exact_size(can_messages, i + 1,
                                   packed_data \o pack_message(can_messages[i]), count + 1)

\* the loop of can_send_many from message i on (1-based)
RECURSIVE pack_loop(_, _, _, _)
pack_loop(can_messages, i, packed_data, count) ==
    IF i > Len(can_messages) THEN [data |-> packed_data, count |-> count]
    ELSE IF Len(packed_data) + MSG_BUDGET > FRAME_SIZE_LIMIT
         THEN [data |-> packed_data, count |-> count]
         ELSE pack_loop(can_messages, i + 1,
                        packed_data \o pack_message(can_messages[i]), count + 1)

\* can_send_many, lines 332-357: packed_data and count
pack_messages(can_messages) == pack_loop(can_messages, 1, <<>>, 0)

dlc_to_len == <<0, 1, 2, 3, 4, 5, 6, 7, 8, 12, 16, 20, 24, 32, 48, 64>>

Max(a, b) == IF a > b THEN a ELSE b

\* the while loop of can_recv; offset is Python's 0-based offset, hi the highest
\* 0-based index of data the loop has asked for so far (-1: none)
RECURSIVE parse_loop(_, _, _, _)
parse_loop(data, offset, messages, hi) ==
    IF ~(offset + 6 <= Len(data)) THEN [messages |-> messages, hi |-> hi]
    ELSE LET header0 == data[offset + 1]
             dlc == BitAnd(ShiftRight(header0, 4), 15)
             bus == BitAnd(ShiftRight(header0, 1), 7)
             fd == BitAnd(header0, 1) # 0
         IN  IF offset + 5 >= Len(data) THEN [messages |-> messages, hi |-> Max(hi, offset)]
             ELSE LET addr_raw == UnpackLE32(Slice(data, offset + 1, offset + 5))
                      extended == BitAnd(addr_raw, EXTENDED_BIT) # 0
                      addr == IF extended THEN BitAnd(addr_raw, EXT_ADDR_MASK)
                              ELSE BitAnd(ShiftRight(addr_raw, STD_ADDR_SHIFT), STD_ADDR_MASK)
                      data_len == IF dlc < Len(dlc_to_len) THEN dlc_to_len[dlc + 1] ELSE 8
                  IN  IF offset + 6 + data_len > Len(data)
                      THEN [messages |-> messages, hi |-> Max(hi, offset + 4)]
                      ELSE parse_loop(data, offset + 6 + data_len,
                               Append(messages,
                                      CANMessage(addr,
                                                 Slice(data, offset + 6, offset + 6 + data_len),
                                                 bus, extended, fd)),
                               IF data_len = 0 THEN Max(hi, offset + 4)
                               ELSE Max(hi, offset + 5 + data_len))

\* a mutated parser: the payload is sliced without checking that it lies
\* inside the buffer
RECURSIVE parse_loop_unchecked(_, _, _, _)
parse_loop_unchecked(data, offset, messages, hi) ==
    IF ~(offset + 6 <= Len(data)) THEN [messages |-> messages, hi |-> hi]
    ELSE LET header0 == data[offset + 1]
             dlc == BitAnd(ShiftRight(header0, 4), 15)
             addr_raw == UnpackLE32(Slice(data, offset + 1, offset + 5))
             extended == BitAnd(addr_raw, EXTENDED_BIT) # 0
             data_len == dlc_to_len[dlc + 1]
         IN  parse_loop_unchecked(data, offset + 6 + data_len,
                 Append(messages,
                        CANMessage(IF extended THEN BitAnd(addr_raw, EXT_ADDR_MASK)
                                   ELSE BitAnd(ShiftRight(addr_raw, STD_ADDR_SHIFT),
                                               STD_ADDR_MASK),
                                   Slice(data, offset + 6, offset + 6 + data_len),
                                   BitAnd(ShiftRight(header0, 1), 7), extended,
                                   BitAnd(header0, 1) # 0)),
                 IF data_len = 0 THEN Max(hi, offset + 4)
                 ELSE Max(hi, offset + 5 + data_len))

parse_messages_unchecked(data) == parse_loop_unchecked(data, 0, <<>>, -1)

\* can_recv, lines 383-418: the messages parsed from a BULK_IN payload
parse_messages(data) == parse_loop(data, 0, <<>>, -1)

(***************************************************************************)
(* FT232RL_PandaAdapter                                                    *)
(***************************************************************************)
\* timeouts in tenths of a second
DEFAULT_TIMEOUT == 10
CONTROL_TIMEOUT == 50
BULK_TIMEOUT == 20

\* self.serial: None, an open Serial object or a closed one
NoSerial == "None"

\* FT232RL_PandaAdapter.__init__
NewAdapter ==
    [serial |-> NoSerial, serial_timeout |-> DEFAULT_TIMEOUT, connected |-> FALSE,
     timeout |-> DEFAULT_TIMEOUT, sequence_tx |-> 0, sequence_rx_expected |-> 0,
     frames_sent |-> 0, frames_received |-> 0, bytes_sent |-> 0,
     bytes_received |-> 0, errors |-> 0]

\* what serial.write does with the bytes it is given
WriteOutcomes == {"full", "short", "raise"}

\* _send_frame as it would be without the & 0xFF on the sequence counter
send_frame_no_wrap(s, frame, w) ==
    IF ~s.connected \/ s.serial = NoSerial
    THEN [s |-> s, ok |-> FALSE, written |-> <<>>]
    ELSE LET data == pack([frame EXCEPT !.sequence = s.sequence_tx])
             bytes_sent == IF w = "full" THEN Len(data) ELSE Len(data) - 1
         IN  IF w = "raise" \/ s.serial = "closed"
             THEN [s |-> [s EXCEPT !.errors = @ + 1], ok |-> FALSE, written |-> <<>>]
             ELSE [s |-> [s EXCEPT !.sequence_tx = @ + 1,
                                   !.frames_sent = @ + 1,
                                   !.bytes_sent = @ + bytes_sent],
                   ok |-> bytes_sent = Len(data),
                   written |-> <<Slice(data, 0, bytes_sent)>>]

\* _send_frame as it would be if it returned True whenever write returned
send_frame_any_write_ok(s, frame, w) ==
    IF ~s.connected \/ s.serial = NoSerial
    THEN [s |-> s, ok |-> FALSE, written |-> <<>>]
    ELSE LET data == pack([frame EXCEPT !.sequence = s.sequence_tx])
             bytes_sent == IF w = "full" THEN Len(data) ELSE Len(data) - 1
         IN  IF w = "raise" \/ s.serial = "closed"
             THEN [s |-> [s EXCEPT !.errors = @ + 1], ok |-> FALSE, written |-> <<>>]
             ELSE [s |-> [s EXCEPT !.sequence_tx = BitAnd(@ + 1, 255),
                                   !.frames_sent = @ + 1,
                                   !.bytes_sent = @ + bytes_sent],
                   ok |-> TRUE,
                   written |-> <<Slice(data, 0, bytes_sent)>>]

\* _send_frame as it would be if only the Serial object were tested, not the
\* connected flag
send_frame_unguarded(s, frame, w) ==
    IF s.serial = NoSerial
    THEN [s |-> s, ok |-> FALSE, written |-> <<>>]
    ELSE LET data == pack([frame EXCEPT !.sequence = s.sequence_tx])
             bytes_sent == IF w = "full" THEN Len(data) ELSE Len(data) - 1
         IN  IF w = "raise" \/ s.serial = "closed"
             THEN [s |-> [s EXCEPT !.errors = @ + 1], ok |-> FALSE, written |-> <<>>]
             ELSE [s |-> [s EXCEPT !.sequence_tx = BitAnd(@ + 1, 255),
                                   !.frames_sent = @ + 1,
                                   !.bytes_sent = @ + bytes_sent],
                   ok |-> bytes_sent = Len(data),
                   written |-> <<Slice(data, 0, bytes_sent)>>]

\* _send_frame; w is the channel's behaviour on this write
send_frame(s, frame, w) ==
    IF ~s.connected \/ s.serial = NoSerial
    THEN [s |-> s, ok |-> FALSE, written |-> <<>>]
    ELSE LET data == pack([frame EXCEPT !.sequence = s.sequence_tx])
             bytes_sent == IF w = "full" THEN Len(data) ELSE Len(data) - 1
         IN  IF w = "raise" \/ s.serial = "closed"
             THEN [s |-> [s EXCEPT !.errors = @ + 1], ok |-> FALSE, written |-> <<>>]
             ELSE [s |-> [s EXCEPT !.sequence_tx = BitAnd(@ + 1, 255),
                                   !.frames_sent = @ + 1,
                                   !.bytes_sent = @ + bytes_sent],
                   ok |-> bytes_sent = Len(data),
                   written |-> <<Slice(data, 0, bytes_sent)>>]

\* _receive_frame as it would be if a header that does not arrive in time
\* counted as an error
receive_frame_timeout_counts(s, timeout, avail, rdx) ==
    IF ~s.connected \/ s.serial = NoSerial
    THEN [s |-> s, frame |-> None, rest |-> avail]
    ELSE LET old_timeout == s.serial_timeout
             s1 == [s EXCEPT !.serial_timeout = timeout]
             header == Slice(avail, 0, 6)
         IN  IF rdx \/ s.serial = "closed"
             THEN [s |-> [s1 EXCEPT !.errors = @ + 1], frame |-> None, rest |-> avail]
             ELSE IF Len(header) < 6
             THEN [s |-> [s1 EXCEPT !.errors = @ + 1], frame |-> None, rest |-> <<>>]
             ELSE IF header[1] # SYNC
             THEN [s |-> s1, frame |-> None, rest |-> Slice(avail, 6, Len(avail))]
             ELSE LET length == header[4]
                      payload == IF length > 0 THEN Slice(avail, 6, 6 + length) ELSE <<>>
                      frame_data == header \o payload
                      u == unpack(frame_data)
                  IN  IF Len(payload) < length
                      THEN [s |-> s1, frame |-> None, rest |-> <<>>]
                      ELSE [s |-> IF u.ok
                                  THEN [s1 EXCEPT !.frames_received = @ + 1,
                                                  !.bytes_received = @ + Len(frame_data),
                                                  !.serial_timeout = old_timeout]
                                  ELSE [s1 EXCEPT !.errors = @ + 1,
                                                  !.serial_timeout = old_timeout],
                            frame |-> IF u.ok THEN u.frame ELSE None,
                            rest |-> Slice(avail, 6 + length, Len(avail))]

\* _receive_frame; avail is what the channel delivers within the timeout,
\* rdx whether serial.read raises; rest is what stays in the input buffer
receive_frame(s, timeout, avail, rdx) ==
    IF ~s.connected \/ s.serial = NoSerial
    THEN [s |-> s, frame |-> None, rest |-> avail]
    ELSE LET old_timeout == s.serial_timeout
             s1 == [s EXCEPT !.serial_timeout = timeout]
             header == Slice(avail, 0, 6)
         IN  IF rdx \/ s.serial = "closed"
             THEN [s |-> [s1 EXCEPT !.errors = @ + 1], frame |-> None, rest |-> avail]
             ELSE IF Len(header) < 6
             THEN [s |-> s1, frame |-> None, rest |-> <<>>]
             ELSE IF header[1] # SYNC
             THEN [s |-> s1, frame |-> None, rest |-> Slice(avail, 6, Len(avail))]
             ELSE LET length == header[4]
                      payload == IF length > 0 THEN Slice(avail, 6, 6 + length) ELSE <<>>
                      frame_data == header \o payload
                      u == unpack(frame_data)
                  IN  IF Len(payload) < length
                      THEN [s |-> s1, frame |-> None, rest |-> <<>>]
                      ELSE [s |-> IF u.ok
                                  THEN [s1 EXCEPT !.frames_received = @ + 1,
                                                  !.bytes_received = @ + Len(frame_data),
                                                  !.serial_timeout = old_timeout]
                                  ELSE [s1 EXCEPT !.errors = @ + 1,
                                                  !.serial_timeout = old_timeout],
                            frame |-> IF u.ok THEN u.frame ELSE None,
                            rest |-> Slice(avail, 6 + length, Len(avail))]

\* the exchange as it would be if the type of the received frame were not
\* compared with the expected one
transfer_any_type(s, q, frame, timeout, expect, e) ==
    LET snd == send_frame(s, frame, e.w)
        rcv == receive_frame(snd.s, timeout, q \o e.arr, e.rdx)
    IN  IF ~snd.ok
        THEN [s |-> snd.s, q |-> q, written |-> snd.written, sent |-> FALSE,
              rx |-> None, starved |-> FALSE, payload |-> <<>>, matched |-> FALSE]
        ELSE [s |-> rcv.s, q |-> rcv.rest, written |-> snd.written, sent |-> TRUE,
              rx |-> rcv.frame, starved |-> (q \o e.arr = <<>>) /\ ~e.rdx,
              payload |-> IF rcv.frame # None THEN rcv.frame.payload ELSE <<>>,
              matched |-> rcv.frame # None]

\* one request/response exchange: a frame sent, then at most one frame read
\* (the shape shared by _control_transfer and can_recv); e is the channel's
\* behaviour: e.w the write, e.arr the bytes arriving during the wait, e.rdx
transfer(s, q, frame, timeout, expect, e) ==
    LET snd == send_frame(s, frame, e.w)
        rcv == receive_frame(snd.s, timeout, q \o e.arr, e.rdx)
    IN  IF ~snd.ok
        THEN [s |-> snd.s, q |-> q, written |-> snd.written, sent |-> FALSE,
              rx |-> None, starved |-> FALSE, payload |-> <<>>, matched |-> FALSE]
        ELSE [s |-> rcv.s, q |-> rcv.rest, written |-> snd.written, sent |-> TRUE,
              rx |-> rcv.frame, starved |-> (q \o e.arr = <<>>) /\ ~e.rdx,
              payload |-> IF rcv.frame # None /\ rcv.frame.frame_type = expect
                          THEN rcv.frame.payload ELSE <<>>,
              matched |-> rcv.frame # None /\ rcv.frame.frame_type = expect]

\* _control_transfer as it would be if the length field were written only
\* when there is data
control_transfer_no_length(s, q, request_type, request, value, index, data, e) ==
    LET control_data == <<request_type, request>> \o PackLE16(value) \o PackLE16(index)
                        \o (IF data # <<>> THEN PackLE16(Len(data)) \o data
                            ELSE <<>>)
    IN  transfer(s, q, Frame(FRAME_CONTROL, 0, control_data, 0),
                 CONTROL_TIMEOUT, FRAME_CONTROL, e)

\* _control_transfer
control_transfer(s, q, request_type, request, value, index, data, e) ==
    LET control_data == <<request_type, request>> \o PackLE16(value) \o PackLE16(index)
                        \o (IF data # <<>> THEN PackLE16(Len(data)) \o data
                            ELSE PackLE16(0))
    IN  transfer(s, q, Frame(FRAME_CONTROL, 0, control_data, 0),
                 CONTROL_TIMEOUT, FRAME_CONTROL, e)

\* a mutated disconnect: the connected flag is left as it was
disconnect_keeps_flag(s) ==
    [s EXCEPT !.serial = IF @ = "open" THEN "closed" ELSE @]

\* disconnect as it would be if it also restarted the sequence numbering
disconnect_resets_sequence(s) ==
    [s EXCEPT !.serial = IF @ = "open" THEN "closed" ELSE @,
              !.connected = FALSE,
              !.sequence_tx = 0]

\* disconnect
disconnect(s) ==
    [s EXCEPT !.serial = IF @ = "open" THEN "closed" ELSE @,
              !.connected = FALSE]

\* a mutated open: the statistics are cleared when the channel is opened
open_serial_resets(s) ==
    [s EXCEPT !.serial = "open", !.serial_timeout = s.timeout, !.connected = TRUE,
              !.frames_sent = 0, !.frames_received = 0, !.bytes_sent = 0,
              !.bytes_received = 0, !.errors = 0]

\* connect, lines 173-175 as they would be if the handler marked the session
\* connected
connect_failed_sets_flag(s) == [s EXCEPT !.connected = TRUE]

\* connect, lines 173-175: serial.Serial(...) raised; the handler prints and
\* returns False, no field is assigned
connect_failed(s) == s

\* connect, lines 154-166: serial.Serial(...) succeeded
open_serial(s) ==
    [s EXCEPT !.serial = "open", !.serial_timeout = s.timeout, !.connected = TRUE]

\* connect as it would be if the outcome of reset() decided the connection
connect_done_gated(r) ==
    [s |-> [r.s EXCEPT !.connected = r.matched], ok |-> r.matched]

\* connect, lines 168-171: reset() has run (r is its exchange), its result is
\* dropped and True is returned
connect_done(r) == [s |-> r.s, ok |-> TRUE]

\* get_stats
get_stats(s) ==
    [frames_sent |-> s.frames_sent, frames_received |-> s.frames_received,
     bytes_sent |-> s.bytes_sent, bytes_received |-> s.bytes_received,
     errors |-> s.errors, connected |-> s.connected]

(***************************************************************************)
(* Values of the variables a specification does not use.                   *)
(***************************************************************************)
NotRun == "NotRun"

\* ret: the operation (op), its return value (ok for a bool, text and data for a
\* string, count for an int, messages for a list, health and stats for a dict)
\* and what its exchange saw: sent (_send_frame returned True), rx (the frame
\* _receive_frame returned), matched (rx is a frame of the expected type),
\* starved (the read found no byte at all within the timeout), opened
\* (serial.Serial(...) returned), input (the message list the operation was given)
NoReturn ==
    [op |-> "init", ok |-> FALSE, text |-> "", data |-> <<>>, count |-> 0,
     messages |-> <<>>, health |-> [voltage |-> 0, current |-> 0, uptime |-> 0],
     stats |-> get_stats(NewAdapter),
     sent |-> FALSE, rx |-> None, matched |-> FALSE, starved |-> FALSE,
     opened |-> FALSE, input |-> <<>>]

\* self.lock as __init__ creates it, and no thread inside _send_frame
ThreadsIdle ==
    /\ lock = 0
    /\ threads = <<>>

SessionInit ==
    /\ self = NewAdapter
    /\ rxq = <<>>
    /\ txq = <<>>
    /\ ret = NoReturn
    /\ history = [closed |-> FALSE]
    /\ ThreadsIdle

FrameIdle ==
    /\ frame_in = None
    /\ wire = <<>>
    /\ rxbuf = [damage |-> NotRun, bit |-> 0, data |-> <<>>]
    /\ decoded = Rejected(NotRun)

CanIdle ==
    /\ batch = <<>>
    /\ packed = [data |-> <<>>, count |-> -1]
    /\ parsed = [cut |-> -1, messages |-> <<>>, hi |-> -1]

(***************************************************************************)
(* SpecFrame: the frame codec applied to frames drawn from bounded sets.   *)
(***************************************************************************)
MaxPayloadLen == 3

SeqValues == {0, 255}
FlagValues == {0, 129}
PayloadBytes == {0, 1, 170}
FirstBytes == {0, 85, 170, 171}

BytesUpTo(n, alphabet) == UNION {[1..k -> alphabet] : k \in 0..n}

\* a frame as _send_frame hands it to pack: built with the default sequence,
\* then given its sequence number, the checksum field not yet recomputed
FrameInputs ==
    {[Frame(t, 0, p, fl) EXCEPT !.sequence = q] :
        t \in FrameTypes, q \in SeqValues, fl \in FlagValues,
        p \in BytesUpTo(MaxPayloadLen, PayloadBytes)}

\* bit i (0 = lowest bit of the first byte) of a byte string inverted
FlipBit(data, i) ==
    [data EXCEPT ![(i \div 8) + 1] = BitXor(@, Pow2(i % 8))]

InitFrame ==
    /\ SessionInit
    /\ CanIdle
    /\ frame_in \in FrameInputs
    /\ wire = <<>>
    /\ rxbuf = [damage |-> NotRun, bit |-> 0, data |-> <<>>]
    /\ decoded = Rejected(NotRun)

PackFrame ==
    /\ wire = <<>>
    /\ wire' = pack(frame_in)
    /\ UNCHANGED <<frame_in, rxbuf, decoded, sessionVars, canVars>>

\* unpack applied to the bytes pack produced
UnpackFrame ==
    /\ wire # <<>>
    /\ rxbuf.damage = NotRun
    /\ rxbuf' = [damage |-> "none", bit |-> 0, data |-> wire]
    /\ decoded' = unpack(wire)
    /\ UNCHANGED <<frame_in, wire, sessionVars, canVars>>

\* unpack applied to the packed bytes with one bit inverted on the way
UnpackFlipped ==
    /\ wire # <<>>
    /\ rxbuf.damage = NotRun
    /\ \E i \in 0..(8 * Len(wire) - 1) :
          /\ rxbuf' = [damage |-> "flip", bit |-> i, data |-> FlipBit(wire, i)]
          /\ decoded' = unpack(FlipBit(wire, i))
    /\ UNCHANGED <<frame_in, wire, sessionVars, canVars>>

\* unpack applied to a prefix of the packed bytes whose first byte was replaced
UnpackGarbled ==
    /\ wire # <<>>
    /\ rxbuf.damage = NotRun
    /\ \E b \in FirstBytes, n \in 0..Len(wire) :
          LET data == Slice([wire EXCEPT ![1] = b], 0, n)
          IN  /\ rxbuf' = [damage |-> "garble", bit |-> 0, data |-> data]
              /\ decoded' = unpack(data)
    /\ UNCHANGED <<frame_in, wire, sessionVars, canVars>>

NextFrame == PackFrame \/ UnpackFrame \/ UnpackFlipped \/ UnpackGarbled

SpecFrame == InitFrame /\ [][NextFrame]_vars

\* C3: frame round trip. Unpacking the bytes pack produced succeeds and gives a
\* frame with the type, sequence, flags, length and payload of the frame packed,
\* its checksum being the XOR of the five leading header bytes and the payload.
C3_FrameRoundTrip ==
    rxbuf.damage = "none" =>
        /\ decoded.ok
        /\ decoded.frame.frame_type = frame_in.frame_type
        /\ decoded.frame.sequence = frame_in.sequence
        /\ decoded.frame.flags = frame_in.flags
        /\ decoded.frame.length = frame_in.length
        /\ decoded.frame.length = Len(frame_in.payload)
        /\ decoded.frame.payload = frame_in.payload
        /\ decoded.frame.checksum = XorFold(Slice(wire, 0, 5) \o frame_in.payload)
        /\ decoded.frame.checksum = wire[6]

C3_Witness ==
    /\ rxbuf.damage = "none"
    /\ decoded.ok
    /\ frame_in.sequence = 255
    /\ frame_in.frame_type = FRAME_ACK
    /\ Len(frame_in.payload) = MaxPayloadLen
    /\ decoded.frame.payload = frame_in.payload

\* the XOR of the payload bytes a shortened length byte leaves out
DroppedXor(newlen) == XorFold(Slice(frame_in.payload, newlen, Len(frame_in.payload)))

\* C5 as stated: every single-bit flip of an encoded frame makes decoding fail
\* with ChecksumMismatch.
C5_AnyFlipIsChecksumMismatch ==
    rxbuf.damage = "flip" => (~decoded.ok /\ decoded.err = ChecksumMismatch)

\* C5 amended: a flipped bit outside the sync and length bytes fails with
\* ChecksumMismatch; a flipped sync bit fails with BadSync; a flipped length bit
\* that raises the length fails with Truncated; one that lowers it fails with
\* ChecksumMismatch unless the XOR of the dropped payload bytes equals the
\* flipped bit, and then decoding succeeds with the shortened payload.
C5_FlipOutcome ==
    rxbuf.damage = "flip" =>
        LET byte == rxbuf.bit \div 8
            mask == Pow2(rxbuf.bit % 8)
            newlen == rxbuf.data[4]
        IN  /\ byte = 0 => (~decoded.ok /\ decoded.err = BadSync)
            /\ (byte = 3 /\ newlen > frame_in.length) =>
                   (~decoded.ok /\ decoded.err = Truncated)
            /\ (byte = 3 /\ newlen < frame_in.length /\ DroppedXor(newlen) # mask) =>
                   (~decoded.ok /\ decoded.err = ChecksumMismatch)
            /\ (byte = 3 /\ newlen < frame_in.length /\ DroppedXor(newlen) = mask) =>
                   (/\ decoded.ok
                    /\ decoded.frame.length = newlen
                    /\ decoded.frame.payload = Slice(frame_in.payload, 0, newlen))
            /\ (byte # 0 /\ byte # 3) => (~decoded.ok /\ decoded.err = ChecksumMismatch)

C5_Witness ==
    /\ rxbuf.damage = "flip"
    /\ rxbuf.bit \div 8 = 6
    /\ ~decoded.ok
    /\ decoded.err = ChecksumMismatch

\* C6 as stated: a buffer whose first byte is not 0xAA fails with BadSync
\* whatever its length.
C6_BadFirstByteIsBadSync ==
    (rxbuf.damage = "garble" /\ rxbuf.data # <<>> /\ rxbuf.data[1] # SYNC) =>
        (~decoded.ok /\ decoded.err = BadSync)

\* C6 amended: a buffer of at least 6 bytes whose first byte is not 0xAA fails
\* with BadSync whatever the remaining content; a buffer of fewer than 6 bytes
\* fails with Truncated whatever its first byte.
C6_BadSyncFromSixBytes ==
    (rxbuf.damage = "garble" /\ rxbuf.data # <<>> /\ rxbuf.data[1] # SYNC) =>
        /\ ~decoded.ok
        /\ Len(rxbuf.data) >= 6 => decoded.err = BadSync
        /\ Len(rxbuf.data) < 6 => decoded.err = Truncated

C6_Witness ==
    /\ rxbuf.damage = "garble"
    /\ Len(rxbuf.data) > 6
    /\ rxbuf.data[1] = 85
    /\ rxbuf.data = [wire EXCEPT ![1] = 85]
    /\ decoded.err = BadSync

(***************************************************************************)
(* SpecCan: the bulk packer and parser applied to short message lists, the *)
(* parser also to every proper prefix of the packed bytes.                 *)
(***************************************************************************)
MaxTail == 2

\* a payload of n bytes
DataOf(n) == [i \in 1..n |-> 16 + i]

StdAddrs == {0, 291, 2047}
ExtAddrs == {291, 262144, 536870911}
ClassicLens == {0, 1, 4, 8}
Buses == {0, 1, 2}

ClassicMsgs ==
    {CANMessage(a, DataOf(n), b, FALSE, FALSE) : a \in StdAddrs, n \in ClassicLens, b \in Buses}
    \cup
    {CANMessage(a, DataOf(n), b, TRUE, FALSE) : a \in ExtAddrs, n \in ClassicLens, b \in Buses}

FdMsgs == {CANMessage(291, DataOf(n), 1, FALSE, TRUE) : n \in {9, 15, 16}}

TailMsgs ==
    {CANMessage(1, <<>>, 0, FALSE, FALSE), CANMessage(2047, DataOf(2), 2, FALSE, FALSE),
     CANMessage(536870911, DataOf(8), 1, TRUE, FALSE)}

SeqsUpTo(n, S) == UNION {[1..k -> S] : k \in 0..n}

CanBatches ==
    {<<>>} \cup {<<m>> \o t : m \in ClassicMsgs \cup FdMsgs, t \in SeqsUpTo(MaxTail, TailMsgs)}

InitCan ==
    /\ SessionInit
    /\ FrameIdle
    /\ batch \in CanBatches
    /\ packed = [data |-> <<>>, count |-> -1]
    /\ parsed = [cut |-> -1, messages |-> <<>>, hi |-> -1]

\* can_send_many's packing loop on the batch
PackBatch ==
    /\ packed.count = -1
    /\ packed' = pack_messages(batch)
    /\ UNCHANGED <<batch, parsed, sessionVars, frameVars>>

ParseResult(n) ==
    LET r == parse_messages(Slice(packed.data, 0, n))
    IN  [cut |-> n, messages |-> r.messages, hi |-> r.hi]

\* can_recv's parser on the whole packed payload
ParseFull ==
    /\ packed.count >= 0
    /\ parsed.cut = -1
    /\ parsed' = ParseResult(Len(packed.data))
    /\ UNCHANGED <<batch, packed, sessionVars, frameVars>>

\* can_recv's parser on a proper prefix of the packed payload
ParseTruncated ==
    /\ packed.count >= 0
    /\ parsed.cut = -1
    /\ \E n \in 0..(Len(packed.data) - 1) : parsed' = ParseResult(n)
    /\ UNCHANGED <<batch, packed, sessionVars, frameVars>>

NextCan == PackBatch \/ ParseFull \/ ParseTruncated

SpecCan == InitCan /\ [][NextCan]_vars

\* the fields a round trip is compared on (the timestamp is excluded)
SameMessage(d, m) ==
    /\ d.addr = m.addr
    /\ d.bus = m.bus
    /\ d.extended = m.extended
    /\ d.data = m.data

FullyParsed == packed.count >= 0 /\ parsed.cut = Len(packed.data)

\* C1: CAN round trip. For one message with a payload of 0, 1, 4 or 8 bytes, bus
\* 0..2, standard or extended, parsing the packed bytes gives exactly one message
\* with the same addr, bus, extended flag and data.
C1_CanRoundTrip ==
    (FullyParsed /\ Len(batch) = 1 /\ Len(batch[1].data) \in ClassicLens
                 /\ batch[1].bus \in Buses) =>
        /\ Len(parsed.messages) = 1
        /\ SameMessage(parsed.messages[1], batch[1])

\* the bytes message m takes in the bulk payload layout when its payload is
\* at most 8 bytes: header, address, data, checksum
WireSize(m) == 6 + Len(m.data)

RECURSIVE SizeOfFirst(_, _)
SizeOfFirst(msgs, k) == IF k = 0 THEN 0 ELSE SizeOfFirst(msgs, k - 1) + WireSize(msgs[k])

IsPrefix(a, b) == Len(a) <= Len(b) /\ a = SubSeq(b, 1, Len(a))

\* C8: partial-buffer decode. Parsing a prefix of a packed payload returns no
\* more messages than parsing the whole payload (the same leading ones), stops
\* at the first message that does not lie entirely inside the prefix, and never
\* asks for a byte at an index at or beyond the prefix's length.
C8_PartialDecode ==
    (packed.count >= 0 /\ parsed.cut >= 0) =>
        LET full == parse_messages(packed.data)
            n == Len(parsed.messages)
        IN  /\ n <= Len(full.messages)
            /\ IsPrefix(parsed.messages, full.messages)
            /\ parsed.hi < parsed.cut
            /\ (\A i \in 1..Len(batch) : Len(batch[i].data) <= 8) =>
                   /\ n <= packed.count
                   /\ SizeOfFirst(batch, n) <= parsed.cut
                   /\ n < packed.count => SizeOfFirst(batch, n + 1) > parsed.cut

C8_Witness ==
    /\ packed.count = 2
    /\ parsed.cut = Len(packed.data) - 1
    /\ Len(batch[2].data) = 8
    /\ Len(parsed.messages) = 1
    /\ parsed.hi = WireSize(batch[1]) + 4

(***************************************************************************)
(* SpecBatch: the packer and parser applied to long message lists: a run   *)
(* of equal messages followed by a short tail, and the example's list.     *)
(***************************************************************************)
MaxFill == 16
MaxBatchTail == 2

\* simple_can_test.py, send_test_messages
TestMessages ==
    <<CANMessage(291, <<1, 2, 3, 4>>, 0, FALSE, FALSE),
      CANMessage(1110, <<5, 6, 7, 8>>, 1, FALSE, FALSE),
      CANMessage(1929, <<9, 10, 11, 12>>, 2, FALSE, FALSE),
      CANMessage(2047, <<170, 187, 204, 221, 238, 255>>, 0, FALSE, FALSE),
      CANMessage(536870911, <<17, 34, 51, 68>>, 1, TRUE, FALSE)>>

FillMsgs ==
    {CANMessage(0, <<>>, 0, FALSE, FALSE), CANMessage(291, DataOf(8), 1, TRUE, FALSE),
     CANMessage(291, DataOf(15), 2, FALSE, TRUE)}

BatchTailMsgs ==
    {CANMessage(0, <<>>, 0, FALSE, FALSE), CANMessage(291, DataOf(1), 1, TRUE, FALSE),
     CANMessage(291, DataOf(14), 2, FALSE, TRUE), CANMessage(291, DataOf(64), 0, TRUE, TRUE)}

BigBatches ==
    {TestMessages} \cup
    {[i \in 1..k |-> f] \o t :
        f \in FillMsgs, k \in 0..MaxFill, t \in SeqsUpTo(MaxBatchTail, BatchTailMsgs)}

InitBatch ==
    /\ SessionInit
    /\ FrameIdle
    /\ batch \in BigBatches
    /\ packed = [data |-> <<>>, count |-> -1]
    /\ parsed = [cut |-> -1, messages |-> <<>>, hi |-> -1]

NextBatch == PackBatch \/ ParseFull

SpecBatch == InitBatch /\ [][NextBatch]_vars

\* C4: the bulk payload never overflows the frame: the bytes can_send_many
\* packs for any message list are at most 250.
C4_PayloadWithinLimit ==
    packed.count >= 0 => Len(packed.data) <= FRAME_SIZE_LIMIT

\* C7: batch encode/decode keeps count and order. For a list of messages with
\* payloads of at most 8 bytes whose encoding fits the 250-byte cap, the packer
\* includes every message, and parsing the packed bytes gives as many messages,
\* the i-th being the i-th message of the list.
C7_BatchCountAndOrder ==
    (/\ FullyParsed
     /\ \A i \in 1..Len(batch) : Len(batch[i].data) <= 8
     /\ SizeOfFirst(batch, Len(batch)) <= FRAME_SIZE_LIMIT) =>
        /\ packed.count = Len(batch)
        /\ Len(parsed.messages) = Len(batch)
        /\ \A i \in 1..Len(batch) : SameMessage(parsed.messages[i], batch[i])

(***************************************************************************)
(* Spec: one adapter session; the public operations in any order, the      *)
(* channel's behaviour drawn from bounded sets.                            *)
(***************************************************************************)
MaxFrames == 2
MaxBacklog == 0

\* a payload the device answers a control transfer with: 12 bytes, the first
\* four an uptime (10000, little-endian), which also read as text with NULs
DevicePayload == <<16, 39, 0, 0, 0, 0, 0, 0, 0, 0, 0, 0>>

DeviceMessage == CANMessage(291, <<1, 2>>, 1, TRUE, FALSE)

DataResponse == pack(Frame(FRAME_CONTROL, 0, DevicePayload, 0))

ControlResponses == {pack(Frame(FRAME_CONTROL, 0, <<>>, 0)), DataResponse}

\* a BULK_IN response carrying two messages
BulkResponse ==
    pack(Frame(FRAME_BULK_IN, 0, pack_messages(<<DeviceMessage, TestMessages[1]>>).data, 0))

\* what the channel delivers while an operation waits: nothing, a response
\* frame, or a damaged one (checksum byte altered, sync byte altered, cut inside
\* the header, cut before the payload)
Arrivals ==
    {<<>>} \cup ControlResponses \cup
    {BulkResponse, FlipBit(DataResponse, 40), [DataResponse EXCEPT ![1] = 85],
     Slice(DataResponse, 0, 3), Slice(DataResponse, 0, 6)}

\* a response that reaches the input buffer after the operation gave up waiting
LateArrivals == {DataResponse}

\* the channel's behaviour during one exchange: how the write goes (w), and when
\* it goes through, what arrives during the wait (arr) or that the read raises
Env ==
    {[w |-> "full", arr |-> a, rdx |-> FALSE] : a \in Arrivals}
    \cup {[w |-> "full", arr |-> <<>>, rdx |-> TRUE]}
    \cup {[w |-> x, arr |-> <<>>, rdx |-> FALSE] : x \in WriteOutcomes \ {"full"}}

SessionBatches == {<<>>, <<DeviceMessage>>, <<TestMessages[1], TestMessages[5]>>}

\* the state space is kept finite: operations that may write a frame run while
\* fewer than MaxFrames writes have been attempted
Budget == self.frames_sent + self.errors < MaxFrames

Exchange(r) ==
    [NoReturn EXCEPT !.sent = r.sent, !.rx = r.rx, !.matched = r.matched,
                     !.starved = r.starved, !.data = r.payload]

Init ==
    /\ SessionInit
    /\ FrameIdle
    /\ CanIdle

\* connect: serial.Serial(...) raises (opened = FALSE) or the channel opens,
\* with an empty input buffer, and reset() is called
Connect ==
    /\ Budget
    /\ \E opened \in BOOLEAN, e \in Env :
          IF ~opened
          THEN /\ ret' = [NoReturn EXCEPT !.op = "connect", !.ok = FALSE]
               /\ self' = connect_failed(self)
               /\ txq' = <<>>
               /\ UNCHANGED rxq
          ELSE \E r \in {control_transfer(open_serial(self), <<>>, 64, CMD_RESET,
                                            0, 0, <<>>, e)} :
                   /\ self' = connect_done(r).s
                   /\ rxq' = r.q
                   /\ txq' = r.written
                   /\ ret' = [Exchange(r) EXCEPT !.op = "connect",
                                                 !.ok = connect_done(r).ok,
                                                 !.opened = TRUE]
    /\ UNCHANGED <<history, frameVars, canVars, threadVars>>

\* disconnect; a closed channel holds no input
Disconnect ==
    /\ self' = disconnect(self)
    /\ rxq' = <<>>
    /\ txq' = <<>>
    /\ ret' = [NoReturn EXCEPT !.op = "disconnect"]
    /\ history' = [history EXCEPT !.closed = TRUE]
    /\ UNCHANGED <<frameVars, canVars, threadVars>>

\* close
Close ==
    /\ self' = disconnect(self)
    /\ rxq' = <<>>
    /\ txq' = <<>>
    /\ ret' = [NoReturn EXCEPT !.op = "close"]
    /\ history' = [history EXCEPT !.closed = TRUE]
    /\ UNCHANGED <<frameVars, canVars, threadVars>>

\* reset / set_safety_mode / set_can_speed_kbps / send_heartbeat: one control
\* transfer, the result being len(response) >= 0
Command(op, request, value, index, e) ==
    \E r \in {control_transfer(self, rxq, 64, request, value, index, <<>>, e)} :
        /\ self' = r.s
        /\ rxq' = r.q
        /\ txq' = r.written
        /\ ret' = [Exchange(r) EXCEPT !.op = op, !.ok = (Len(r.payload) >= 0)]
        /\ UNCHANGED <<history, frameVars, canVars, threadVars>>

Reset == Budget /\ \E e \in Env : Command("reset", CMD_RESET, 0, 0, e)

SetSafetyMode ==
    Budget /\ \E e \in Env :
        Command("set_safety_mode", CMD_SET_SAFETY_MODE, NO_OUTPUT, 0, e)

SetCanSpeedKbps ==
    Budget /\ \E e \in Env :
        Command("set_can_speed_kbps", CMD_SET_CAN_SPEED, 0, 500, e)

SendHeartbeat == Budget /\ \E e \in Env : Command("send_heartbeat", CMD_HEARTBEAT, 0, 0, e)

\* response.decode('utf-8').strip('\x00') for a response of bytes below 0x80
RECURSIVE StripNul(_)
StripNul(b) ==
    IF b = <<>> THEN b
    ELSE IF b[1] = 0 THEN StripNul(Tail(b))
    ELSE IF b[Len(b)] = 0 THEN StripNul(SubSeq(b, 1, Len(b) - 1))
    ELSE b

\* the str get_version returns for a response of bytes below 0x80
VersionText(payload) ==
    IF payload = <<>> THEN "Error"
    ELSE IF \A i \in 1..Len(payload) : payload[i] < 128 THEN "decoded"
    ELSE "Unknown"

\* get_version
GetVersion ==
    /\ Budget
    /\ \E e \in Env :
          \E r \in {control_transfer(self, rxq, 192, CMD_GET_VERSION, 0, 0, <<>>, e)} :
              /\ self' = r.s
              /\ rxq' = r.q
              /\ txq' = r.written
              /\ ret' = [Exchange(r) EXCEPT
                            !.op = "get_version",
                            !.text = VersionText(r.payload),
                            !.data = IF VersionText(r.payload) = "decoded"
                                     THEN StripNul(r.payload) ELSE <<>>]
    /\ UNCHANGED <<history, frameVars, canVars, threadVars>>

\* health; voltage and current in tenths
Health ==
    /\ Budget
    /\ \E e \in Env :
          \E r \in {control_transfer(self, rxq, 192, CMD_GET_HEALTH, 0, 0, <<>>, e)} :
              /\ self' = r.s
              /\ rxq' = r.q
              /\ txq' = r.written
              /\ ret' = [Exchange(r) EXCEPT
                            !.op = "health",
                            !.health = IF Len(r.payload) >= 12
                                       THEN [voltage |-> 120, current |-> 5,
                                             uptime |-> UnpackLE32(Slice(r.payload, 0, 4))]
                                       ELSE [voltage |-> 0, current |-> 0, uptime |-> 0]]
    /\ UNCHANGED <<history, frameVars, canVars, threadVars>>

\* can_send_many
can_send_many(batches) ==
    /\ \E can_messages \in batches :
          \E p \in {pack_messages(can_messages)} :
              IF p.data = <<>>
              THEN /\ ret' = [NoReturn EXCEPT !.op = "can_send_many", !.count = 0,
                                              !.input = can_messages]
                   /\ txq' = <<>>
                   /\ UNCHANGED self
              ELSE \E frame \in {Frame(FRAME_BULK_OUT, 0, p.data, 0)}, w \in WriteOutcomes :
                   \E snd \in {send_frame(self, frame, w)} :
                       /\ self' = snd.s
                       /\ txq' = snd.written
                       /\ ret' = [NoReturn EXCEPT !.op = "can_send_many", !.sent = snd.ok,
                                                  !.count = IF snd.ok THEN p.count ELSE 0,
                                                  !.input = can_messages]
    /\ UNCHANGED <<rxq, history, frameVars, canVars, threadVars>>

CanSendMany == Budget /\ can_send_many(SessionBatches)

\* can_recv
CanRecv ==
    /\ Budget
    /\ \E e \in Env :
          \E r \in {transfer(self, rxq, Frame(FRAME_BULK_IN, 0, <<>>, 0),
                             BULK_TIMEOUT, FRAME_BULK_IN, e)} :
              /\ self' = r.s
              /\ rxq' = r.q
              /\ txq' = r.written
              /\ ret' = [Exchange(r) EXCEPT
                            !.op = "can_recv",
                            !.messages = IF r.matched
                                         THEN parse_messages(r.payload).messages
                                         ELSE <<>>]
    /\ UNCHANGED <<history, frameVars, canVars, threadVars>>

\* get_stats
GetStats ==
    /\ ret' = [NoReturn EXCEPT !.op = "get_stats", !.stats = get_stats(self)]
    /\ txq' = <<>>
    /\ UNCHANGED <<self, rxq, history, frameVars, canVars, threadVars>>

\* the device's answer reaches the input buffer after the wait has ended
DeviceLate ==
    /\ self.serial = "open"
    /\ Len(rxq) <= MaxBacklog
    /\ \E a \in LateArrivals : rxq' = rxq \o a
    /\ UNCHANGED <<self, txq, ret, history, frameVars, canVars, threadVars>>

Next ==
    \/ Connect
    \/ Disconnect
    \/ Close
    \/ Reset
    \/ GetVersion
    \/ Health
    \/ SetSafetyMode
    \/ SetCanSpeedKbps
    \/ SendHeartbeat
    \/ CanSendMany
    \/ CanRecv
    \/ GetStats
    \/ DeviceLate

Spec == Init /\ [][Next]_vars

NoOpCommands == {"reset", "set_safety_mode", "set_can_speed_kbps", "send_heartbeat"}

\* C2: a no-op style command reports success when a CONTROL response frame
\* arrives (empty or not) and failure when no response frame arrives within the
\* timeout.
C2_NoOpCommandOutcome ==
    ret.op \in NoOpCommands =>
        /\ ret.matched => ret.ok
        /\ (ret.sent /\ ret.starved) => ~ret.ok

Counters(s) ==
    <<s.frames_sent, s.frames_received, s.bytes_sent, s.bytes_received, s.errors>>

\* C9 as stated: once close()/disconnect() has been called no later operation
\* makes the session connected again.
C9_ClosedIsTerminal == [][history.closed => ~self'.connected]_vars

\* C9 amended: close()/disconnect() leaves the session not connected with its
\* channel closed, and a session that is not connected stays so under every
\* operation except a connect() whose channel opens, which connects it again
\* (also after a close).
C9_OnlyConnectReconnects ==
    /\ [](ret.op \in {"close", "disconnect"} =>
             (~self.connected /\ self.serial # "open" /\ history.closed))
    /\ [][(~self.connected /\ self'.connected) =>
             (ret'.op = "connect" /\ ret'.ok /\ self'.serial = "open")]_vars

C9_Witness ==
    /\ history.closed
    /\ self.connected
    /\ ret.op = "connect"
    /\ self.frames_sent >= 2

\* C10: statistics are monotonic. No step lowers frames_sent, frames_received,
\* bytes_sent, bytes_received or errors, and get_stats returns their current
\* values and leaves them as they were.
C10_StatsMonotonic ==
    /\ [](ret.op = "get_stats" => ret.stats = get_stats(self))
    /\ [][\A i \in 1..5 : Counters(self')[i] >= Counters(self)[i]]_vars
    /\ [][ret'.op = "get_stats" => Counters(self') = Counters(self)]_vars

C10_Witness ==
    /\ ret.op = "get_stats"
    /\ history.closed
    /\ ret.stats.frames_sent >= 2
    /\ ret.stats.frames_received >= 1
    /\ ret.stats.errors >= 1
    /\ ~ret.stats.connected

\* C11: a failure to open the serial channel is fatal to connect. connect
\* returns False exactly when the channel did not open, and then no frame is
\* written (not even RESET), the connected flag, the sequence counter and the
\* statistics counters are as they were: a session that was not connected stays
\* not connected.
C11_OpenFailureLeavesSession ==
    /\ [](ret.op = "connect" => (ret.ok <=> ret.opened))
    /\ [][(ret'.op = "connect" /\ ~ret'.opened) =>
             /\ ~ret'.ok
             /\ txq' = <<>>
             /\ ~ret'.sent
             /\ self'.connected = self.connected
             /\ ~self.connected => ~self'.connected
             /\ self'.serial = self.serial
             /\ self'.sequence_tx = self.sequence_tx
             /\ Counters(self') = Counters(self)]_vars

C11_Witness ==
    /\ ret.op = "connect"
    /\ ~ret.opened
    /\ ~ret.ok
    /\ ~self.connected
    /\ history.closed
    /\ self.frames_sent >= 1

\* the frame the last operation's write put on the wire, decoded; a write that
\* was short, raised or never happened leaves no whole frame
WrittenFrame == IF txq = <<>> THEN Rejected(NotRun) ELSE unpack(txq[1])

\* C12: can_send_many returns the number of messages it put in the BULK_OUT
\* frame when that frame is written whole, and 0 when it is not (not connected,
\* short write, write error); for an empty list it returns 0 and writes nothing.
C12_SendManyReturn ==
    ret.op = "can_send_many" =>
        LET p == pack_messages(ret.input)
            w == WrittenFrame
        IN  /\ Len(txq) <= 1
            /\ ret.input = <<>> => (ret.count = 0 /\ txq = <<>>)
            /\ w.ok => /\ w.frame.frame_type = FRAME_BULK_OUT
                       /\ w.frame.payload = p.data
                       /\ ret.count = p.count
                       /\ ret.count >= 1
            /\ ~w.ok => ret.count = 0
            /\ (~self.connected \/ self.serial # "open") => (ret.count = 0 /\ txq = <<>>)

C12_Witness ==
    /\ ret.op = "can_send_many"
    /\ Len(ret.input) = 2
    /\ WrittenFrame.ok
    /\ ret.count = 2
    /\ self.frames_sent = 2

\* a short write returns 0
C12_ShortWriteWitness ==
    /\ ret.op = "can_send_many"
    /\ txq # <<>>
    /\ ~WrittenFrame.ok
    /\ ret.count = 0

\* C13: can_recv writes one BULK_IN request frame with an empty payload and
\* reads at most one frame; it returns the empty list when the request could not
\* be sent, when no frame or an invalid one arrived, and when the frame received
\* is not of type BULK_IN; otherwise it returns the messages parsed from that
\* frame's payload, in the order they lie in it.
C13_RecvOutcome ==
    /\ [](ret.op = "can_recv" =>
             /\ Len(txq) <= 1
             /\ WrittenFrame.ok => (/\ WrittenFrame.frame.frame_type = FRAME_BULK_IN
                                    /\ WrittenFrame.frame.payload = <<>>)
             /\ ret.sent <=> WrittenFrame.ok
             /\ ~ret.sent => (ret.rx = None /\ ret.messages = <<>>)
             /\ ret.rx = None => ret.messages = <<>>
             /\ (ret.rx # None /\ ret.rx.frame_type # FRAME_BULK_IN) => ret.messages = <<>>
             /\ (ret.rx # None /\ ret.rx.frame_type = FRAME_BULK_IN) =>
                    ret.messages = parse_messages(ret.rx.payload).messages)
    /\ [][ret'.op = "can_recv" =>
             /\ self'.frames_received <= self.frames_received + 1
             /\ ~ret'.sent => (/\ self'.frames_received = self.frames_received
                               /\ self'.bytes_received = self.bytes_received)]_vars

C13_Witness ==
    /\ ret.op = "can_recv"
    /\ ret.rx # None
    /\ ret.rx.frame_type = FRAME_BULK_IN
    /\ Len(ret.messages) = 2
    /\ ret.messages[1].bus = DeviceMessage.bus
    /\ ret.messages[1].extended
    /\ ret.messages[2].bus = TestMessages[1].bus
    /\ ~ret.messages[2].extended

\* a CONTROL frame answers can_recv: the list is empty
C13_WrongTypeWitness ==
    /\ ret.op = "can_recv"
    /\ ret.rx # None
    /\ ret.rx.frame_type = FRAME_CONTROL
    /\ ret.rx.payload # <<>>
    /\ ret.messages = <<>>

\* C14: close is idempotent. After close() (or disconnect()) the session is not
\* connected and its channel is not open, whether or not it was ever connected;
\* closing again changes no field; and no close changes the sequence counter or
\* a statistics counter.
C14_CloseIdempotent ==
    /\ [](ret.op \in {"close", "disconnect"} =>
             /\ ~self.connected
             /\ self.serial \in {NoSerial, "closed"}
             /\ disconnect(self) = self
             /\ rxq = <<>>)
    /\ [][ret'.op \in {"close", "disconnect"} =>
             /\ self'.sequence_tx = self.sequence_tx
             /\ self'.sequence_rx_expected = self.sequence_rx_expected
             /\ Counters(self') = Counters(self)
             /\ self.serial = NoSerial => self'.serial = NoSerial]_vars

C14_Witness ==
    /\ ret.op = "close"
    /\ self.serial = "closed"
    /\ ~self.connected
    /\ self.sequence_tx = 2
    /\ self.frames_received >= 1
    /\ disconnect(self) = self

\* close on a session that was never connected
C14_NeverConnectedWitness ==
    /\ ret.op = "close"
    /\ self = NewAdapter

(***************************************************************************)
(* SpecSend: _send_frame called directly, any number of times, on a        *)
(* session that connects and disconnects; long enough for the sequence     *)
(* counter to wrap. history counts the frames whose write returned         *)
(* (handed) and the writes that came back short or raised (faults).        *)
(***************************************************************************)
MaxSends == 257
MaxSendFaults == 2

\* frames the callers build: a control frame, a BULK_OUT frame built with a
\* sequence argument of its own, a BULK_IN request padded to the same size
SendFrames ==
    {Frame(FRAME_CONTROL, 0, <<64, CMD_HEARTBEAT, 0, 0, 0, 0, 0, 0>>, 0),
     Frame(FRAME_BULK_OUT, 77, pack_messages(<<CANMessage(291, <<1, 2>>, 1, TRUE, FALSE)>>).data, 0)}

\* the writes the channel may answer with, faults while fewer than
\* MaxSendFaults have happened
SendOutcomes ==
    IF history.faults < MaxSendFaults THEN WriteOutcomes ELSE {"full"}

InitSend ==
    /\ self = NewAdapter
    /\ rxq = <<>>
    /\ txq = <<>>
    /\ ret = NoReturn
    /\ history = [closed |-> FALSE, handed |-> 0, faults |-> 0]
    /\ ThreadsIdle
    /\ FrameIdle
    /\ CanIdle

\* what a call that reached serial.write adds to the history
Sent(h, snd, w, reached) ==
    [h EXCEPT !.handed = @ + Len(snd.written),
              !.faults = @ + (IF reached /\ w # "full" THEN 1 ELSE 0)]

\* connect with the channel opening; reset()'s frame is written and no answer
\* arrives within the timeout
SendConnect ==
    /\ history.handed < MaxSends
    /\ \E w \in SendOutcomes :
          \E r \in {control_transfer(open_serial(self), <<>>, 64, CMD_RESET, 0, 0, <<>>,
                                      [w |-> w, arr |-> <<>>, rdx |-> FALSE])} :
              /\ self' = r.s
              /\ rxq' = r.q
              /\ txq' = r.written
              /\ ret' = [Exchange(r) EXCEPT !.op = "connect", !.ok = TRUE, !.opened = TRUE]
              /\ history' = Sent(history, r, w, TRUE)
    /\ UNCHANGED <<frameVars, canVars, threadVars>>

\* _send_frame(frame)
SendFrame ==
    /\ history.handed < MaxSends
    /\ \E frame \in SendFrames, w \in SendOutcomes :
          \E snd \in {send_frame(self, frame, w)} :
              /\ self' = snd.s
              /\ txq' = snd.written
              /\ ret' = [NoReturn EXCEPT !.op = "_send_frame", !.ok = snd.ok,
                                         !.sent = snd.ok]
              /\ history' = Sent(history, snd, w, self.connected /\ self.serial # NoSerial)
    /\ UNCHANGED <<rxq, frameVars, canVars, threadVars>>

NextSend == SendConnect \/ SendFrame \/ Disconnect

SpecSend == InitSend /\ [][NextSend]_vars

\* the last call's write put a whole frame on the wire
Whole(written) == written # <<>> /\ unpack(written[1]).ok

WroteWhole == Whole(txq)

\* C15: _send_frame accounts a frame as sent only on a full write. frames_sent
\* and bytes_sent grow exactly when every byte of the encoded frame was written
\* (and the call returns True); when the write is short or raises, frames_sent
\* stays, errors grows by one and the call returns False; one call writes at
\* most once.
C15_SentOnlyOnFullWrite ==
    [][ret'.op = "_send_frame" =>
         /\ Len(txq') <= 1
         /\ (self'.frames_sent = self.frames_sent + 1) <=> Whole(txq')
         /\ (self'.bytes_sent # self.bytes_sent) <=> Whole(txq')
         /\ Whole(txq') => (ret'.ok /\ self'.bytes_sent = self.bytes_sent + Len(txq'[1]))
         /\ (self.connected /\ ~Whole(txq')) =>
                /\ ~ret'.ok
                /\ self'.frames_sent = self.frames_sent
                /\ self'.errors = self.errors + 1]_vars

\* C16: outgoing sequence numbering. The counter starts at 0; the k-th frame
\* whose write returned (k from 0, over the whole session, reconnects included,
\* whatever its type) carries k mod 256 in its sequence byte, whatever sequence
\* the caller built the frame with; a call rejected because the session is not
\* connected writes nothing and leaves the counter as it was.
C16_SequenceNumbering ==
    /\ [](self.sequence_tx = history.handed % 256)
    /\ [](txq # <<>> => txq[1][3] = (history.handed - 1) % 256)
    /\ [][(ret'.op = "_send_frame" /\ (~self.connected \/ self.serial = NoSerial)) =>
             /\ ~ret'.ok
             /\ txq' = <<>>
             /\ self'.sequence_tx = self.sequence_tx
             /\ history'.handed = history.handed]_vars

\* frame number 256 has been written after a reconnect: it carries 0
C16_Witness ==
    /\ history.handed = 257
    /\ history.closed
    /\ ret.op = "_send_frame"
    /\ WroteWhole
    /\ txq[1][2] = FRAME_BULK_OUT
    /\ txq[1][3] = 0
    /\ self.sequence_tx = 1

\* a call on a session that is not connected, the counter in mid-run
C16_RejectedWitness ==
    /\ ret.op = "_send_frame"
    /\ ~self.connected
    /\ ~ret.ok
    /\ self.sequence_tx = 255

(***************************************************************************)
(* SpecThreads: several threads call _send_frame at once on one connected  *)
(* session whose channel is healthy. Each statement of _send_frame is a    *)
(* step of its thread; serial.write puts the frame on the wire chunk by    *)
(* chunk. txq is the wire: the chunks in the order they were written.      *)
(***************************************************************************)
MaxThreads == 3

Threads == 1..MaxThreads

\* threading.Lock: a thread enters "with self.lock" when the lock is free
lock_always_free(l) == TRUE

lock_free(l) == l = 0

\* the session after connect() with reset() left unanswered
Connected ==
    control_transfer(open_serial(NewAdapter), <<>>, 64, CMD_RESET, 0, 0, <<>>,
                     [w |-> "full", arr |-> <<>>, rdx |-> FALSE]).s

\* and after n more commands left unanswered: each one a frame of the size of
\* the RESET frame, written whole
AfterCommands(n) ==
    [Connected EXCEPT !.sequence_tx = (@ + n) % 256,
                      !.frames_sent = @ + n,
                      !.bytes_sent = @ + (n * Connected.bytes_sent)]

\* the frames the threads send
ThreadFrames ==
    {Frame(FRAME_BULK_IN, 0, <<>>, 0), Frame(FRAME_BULK_OUT, 9, <<1, 2>>, 0)}

\* a thread that has not called yet
IdleThread ==
    [pc |-> "idle", frame |-> None, data |-> <<>>, written |-> 0, bytes_sent |-> 0,
     ok |-> FALSE]

\* the most bytes serial.write puts on the wire in one step
MaxChunk == 4

InitThreads ==
    /\ self \in {AfterCommands(0), AfterCommands(254)}
    /\ rxq = <<>>
    /\ txq = <<>>
    /\ ret = NoReturn
    /\ history = [closed |-> FALSE, start |-> self]
    /\ lock = 0
    /\ threads = [t \in Threads |-> IdleThread]
    /\ FrameIdle
    /\ CanIdle

At(t, pc) == threads[t].pc = pc

Goto(t, pc) == threads' = [threads EXCEPT ![t].pc = pc]

\* line 185: the call, and the test of connected and serial
ThreadCall ==
    \E t \in Threads, frame \in ThreadFrames :
        /\ At(t, "idle")
        /\ threads' = [threads EXCEPT
                           ![t].frame = frame,
                           ![t].pc = IF ~self.connected \/ self.serial = NoSerial
                                     THEN "done" ELSE "with"]
        /\ UNCHANGED <<self, rxq, txq, ret, history, lock, frameVars, canVars>>

\* line 189: with self.lock
ThreadAcquire ==
    \E t \in Threads :
        /\ At(t, "with")
        /\ lock_free(lock)
        /\ lock' = t
        /\ Goto(t, "assign")
        /\ UNCHANGED <<self, rxq, txq, ret, history, frameVars, canVars>>

\* lines 190-191: frame.sequence = self.sequence_tx; data = frame.pack()
ThreadAssign ==
    \E t \in Threads :
        /\ At(t, "assign")
        /\ threads' = [threads EXCEPT
                           ![t].frame = [@ EXCEPT !.sequence = self.sequence_tx],
                           ![t].data = pack([threads[t].frame EXCEPT
                                                !.sequence = self.sequence_tx]),
                           ![t].pc = "write"]
        /\ UNCHANGED <<self, rxq, txq, ret, history, lock, frameVars, canVars>>

\* lines 192-193: serial.write(data) and flush, the next chunk going out
ThreadWrite ==
    \E t \in Threads :
        /\ At(t, "write")
        /\ LET from == threads[t].written
               upto == IF from + MaxChunk < Len(threads[t].data)
                       THEN from + MaxChunk ELSE Len(threads[t].data)
           IN  /\ txq' = Append(txq, Slice(threads[t].data, from, upto))
               /\ threads' = [threads EXCEPT
                                  ![t].written = upto,
                                  ![t].bytes_sent = upto,
                                  ![t].pc = IF upto = Len(threads[t].data)
                                            THEN "sequence" ELSE "write"]
        /\ UNCHANGED <<self, rxq, ret, history, lock, frameVars, canVars>>

\* line 195: self.sequence_tx = (self.sequence_tx + 1) & 0xFF
ThreadSequence ==
    \E t \in Threads :
        /\ At(t, "sequence")
        /\ self' = [self EXCEPT !.sequence_tx = BitAnd(@ + 1, 255)]
        /\ Goto(t, "frames")
        /\ UNCHANGED <<rxq, txq, ret, history, lock, frameVars, canVars>>

\* line 196: self.frames_sent += 1
ThreadFrames_sent ==
    \E t \in Threads :
        /\ At(t, "frames")
        /\ self' = [self EXCEPT !.frames_sent = @ + 1]
        /\ Goto(t, "bytes")
        /\ UNCHANGED <<rxq, txq, ret, history, lock, frameVars, canVars>>

\* lines 197-199: self.bytes_sent += bytes_sent; return bytes_sent == len(data),
\* which leaves the with block and releases the lock
ThreadReturn ==
    \E t \in Threads :
        /\ At(t, "bytes")
        /\ self' = [self EXCEPT !.bytes_sent = @ + threads[t].bytes_sent]
        /\ threads' = [threads EXCEPT
                           ![t].ok = (threads[t].bytes_sent = Len(threads[t].data)),
                           ![t].pc = "done"]
        /\ lock' = IF lock = t THEN 0 ELSE lock
        /\ UNCHANGED <<rxq, txq, ret, history, frameVars, canVars>>

NextThreads ==
    \/ ThreadCall
    \/ ThreadAcquire
    \/ ThreadAssign
    \/ ThreadWrite
    \/ ThreadSequence
    \/ ThreadFrames_sent
    \/ ThreadReturn

SpecThreads == InitThreads /\ [][NextThreads]_vars

\* the bytes on the wire, in order
RECURSIVE Flatten(_)
Flatten(chunks) == IF chunks = <<>> THEN <<>> ELSE Head(chunks) \o Flatten(Tail(chunks))

\* the wire cut into frames by their length bytes; what is left over when the
\* bytes run out inside a frame is the last element
RECURSIVE SplitWire(_)
SplitWire(b) ==
    IF b = <<>> THEN <<>>
    ELSE IF Len(b) < 6 THEN <<b>>
    ELSE IF Len(b) < 6 + b[4] THEN <<b>>
    ELSE <<SubSeq(b, 1, 6 + b[4])>> \o SplitWire(SubSeq(b, 7 + b[4], Len(b)))

InsideLock(t) == threads[t].pc \in {"assign", "write", "sequence", "frames", "bytes"}

Numbered(t) == threads[t].pc \in {"write", "sequence", "frames", "bytes", "done"}

AllDone == \A t \in Threads : threads[t].pc = "done"

\* C17: send-side mutual exclusion. Under every interleaving of the threads'
\* steps at most one thread is between taking its sequence number and its
\* return; the wire is a run of whole frames numbered consecutively from the
\* counter's starting value (mod 256), each the frame of one thread, followed
\* at most by the beginning of the frame of the thread inside; no two threads
\* carry the same number; and when all N calls have returned, each returned
\* True, frames_sent has grown by N, bytes_sent by the bytes on the wire and the
\* counter by N mod 256.
C17_SendMutualExclusion ==
    LET onwire == SplitWire(Flatten(txq))
        start == history.start
    IN  /\ \A t, u \in Threads : (InsideLock(t) /\ InsideLock(u)) => t = u
        /\ \A t \in Threads : InsideLock(t) => lock = t
        /\ \A t, u \in Threads :
               (Numbered(t) /\ Numbered(u) /\ t # u) =>
                   threads[t].frame.sequence # threads[u].frame.sequence
        /\ \A i \in 1..Len(onwire) :
               \/ /\ unpack(onwire[i]).ok
                  /\ onwire[i][3] = (start.sequence_tx + i - 1) % 256
                  /\ \E t \in Threads : Numbered(t) /\ threads[t].data = onwire[i]
               \/ /\ i = Len(onwire)
                  /\ lock # 0
                  /\ threads[lock].pc = "write"
                  /\ IsPrefix(onwire[i], threads[lock].data)
        /\ AllDone =>
               /\ Len(onwire) = MaxThreads
               /\ \A t \in Threads : threads[t].ok
               /\ self.frames_sent = start.frames_sent + MaxThreads
               /\ self.bytes_sent = start.bytes_sent + Len(Flatten(txq))
               /\ self.sequence_tx = (start.sequence_tx + MaxThreads) % 256
               /\ lock = 0

\* all calls have returned, the counter having wrapped on the way
C17_Witness ==
    /\ AllDone
    /\ history.start.sequence_tx = 255
    /\ \E t, u \in Threads : threads[t].frame.sequence = 255 /\ threads[u].frame.sequence = 0
    /\ \E t, u \in Threads : threads[t].frame.frame_type # threads[u].frame.frame_type
    /\ self.frames_sent = history.start.frames_sent + MaxThreads

\* one thread is in the middle of its write while the others wait for the lock
C17_WaitingWitness ==
    /\ lock # 0
    /\ threads[lock].pc = "write"
    /\ threads[lock].written > 0
    /\ \A t \in Threads : t # lock => threads[t].pc = "with"

(***************************************************************************)
(* SpecReceive: _receive_frame called directly on a connected session,     *)
(* the channel delivering whole frames, damaged frames, too few bytes or   *)
(* nothing. rxbuf records what the call found in the channel.              *)
(***************************************************************************)
MaxReceives == 3

\* frames the device sends
DeviceFrames == ControlResponses \cup {BulkResponse, pack(Frame(FRAME_ACK, 7, <<9>>, 128))}

\* what reaches the input buffer before the timeout: nothing, a frame, a frame
\* with a bit of its checksum or of its last byte flipped, with its sync byte
\* altered, cut inside the header, cut inside or before the payload, or a frame
\* and the beginning of the next
Deliveries ==
    {<<>>} \cup DeviceFrames
    \cup {FlipBit(f, 40) : f \in DeviceFrames}
    \cup {FlipBit(f, (8 * Len(f)) - 1) : f \in DeviceFrames}
    \cup {[f EXCEPT ![1] = 85] : f \in DeviceFrames}
    \cup {Slice(f, 0, n) : f \in DeviceFrames, n \in {1, 5, 6}}
    \cup {Slice(f, 0, Len(f) - 1) : f \in DeviceFrames}
    \cup {f \o <<SYNC, FRAME_CONTROL>> : f \in ControlResponses}

\* the timeout argument: None (self.timeout is used) or the value a caller passes
ReceiveTimeouts == {DEFAULT_TIMEOUT, BULK_TIMEOUT, CONTROL_TIMEOUT}

InitReceive ==
    /\ self = Connected
    /\ rxq = <<>>
    /\ txq = <<>>
    /\ ret = NoReturn
    /\ history = [closed |-> FALSE]
    /\ ThreadsIdle
    /\ FrameIdle
    /\ CanIdle

\* _receive_frame(timeout); new bytes arrive once the input buffer is empty
ReceiveFrame ==
    /\ self.frames_received + self.errors < MaxReceives
    /\ \E timeout \in ReceiveTimeouts, arr \in Deliveries, rdx \in BOOLEAN :
          \E r \in {receive_frame(self, timeout, rxq \o arr, rdx)} :
              /\ (rdx \/ rxq # <<>>) => arr = <<>>
              /\ self' = r.s
              /\ rxq' = r.rest
              /\ ret' = [NoReturn EXCEPT !.op = "_receive_frame", !.rx = r.frame]
              /\ rxbuf' = [damage |-> IF rdx THEN "raise" ELSE "read", bit |-> 0,
                           data |-> rxq \o arr]
    /\ UNCHANGED <<txq, history, frame_in, wire, decoded, canVars, threadVars>>

NextReceive == ReceiveFrame \/ Disconnect

SpecReceive == InitReceive /\ [][NextReceive]_vars

\* what a buffer holds, by the frame layout: too few bytes for a header, a
\* header with a wrong sync byte, a header whose payload is not all there, a
\* whole frame whose checksum byte is wrong, or a whole valid frame
HeaderMissing(b) == Len(b) < 6

BadSyncBuffer(b) == Len(b) >= 6 /\ b[1] # SYNC

TruncatedBuffer(b) == Len(b) >= 6 /\ b[1] = SYNC /\ Len(b) < 6 + b[4]

WholeFrame(b) == Len(b) >= 6 /\ b[1] = SYNC /\ Len(b) >= 6 + b[4]

BadChecksumBuffer(b) ==
    WholeFrame(b) /\ XorFold(SubSeq(b, 1, 5) \o SubSeq(b, 7, 6 + b[4])) # b[6]

GoodBuffer(b) ==
    WholeFrame(b) /\ XorFold(SubSeq(b, 1, 5) \o SubSeq(b, 7, 6 + b[4])) = b[6]

Malformed(b) == BadSyncBuffer(b) \/ TruncatedBuffer(b) \/ BadChecksumBuffer(b)

\* the step is a call of _receive_frame on a connected session whose read did
\* not raise
Received ==
    /\ ret'.op = "_receive_frame"
    /\ self.connected
    /\ rxbuf'.damage = "read"

\* C18: every frame _receive_frame rejects as malformed (bad sync byte,
\* truncated, checksum mismatch) is surfaced as None, adds exactly one to the
\* error counter and leaves frames_received and bytes_received unchanged.
C18_MalformedCountsOneError ==
    [][(Received /\ Malformed(rxbuf'.data)) =>
         /\ ret'.rx = None
         /\ self'.errors = self.errors + 1
         /\ self'.frames_received = self.frames_received
         /\ self'.bytes_received = self.bytes_received]_vars

\* C19: a receive that times out is not an error. When fewer than 6 header
\* bytes arrive within the timeout _receive_frame returns None and leaves
\* errors, frames_received and bytes_received as they were; a frame is returned
\* exactly when a whole valid frame has arrived, and then frames_received grows
\* by one, bytes_received by 6 plus the payload length, and errors stays.
C19_TimeoutIsNoError ==
    [][Received =>
         /\ HeaderMissing(rxbuf'.data) =>
                /\ ret'.rx = None
                /\ self'.errors = self.errors
                /\ self'.frames_received = self.frames_received
                /\ self'.bytes_received = self.bytes_received
         /\ (ret'.rx # None) <=> GoodBuffer(rxbuf'.data)
         /\ ret'.rx # None =>
                /\ self'.frames_received = self.frames_received + 1
                /\ self'.bytes_received = self.bytes_received + 6 + Len(ret'.rx.payload)
                /\ self'.errors = self.errors
                /\ ret'.rx.payload = SubSeq(rxbuf'.data, 7, 6 + rxbuf'.data[4])]_vars

\* a timeout with a partial header, after a frame was received: no error counted
C19_Witness ==
    /\ ret.op = "_receive_frame"
    /\ rxbuf.damage = "read"
    /\ Len(rxbuf.data) = 5
    /\ ret.rx = None
    /\ self.errors = 0
    /\ self.frames_received = 2
    /\ self.bytes_received > 12

\* a frame with a payload has just been received
C19_FrameWitness ==
    /\ ret.op = "_receive_frame"
    /\ ret.rx # None
    /\ Len(ret.rx.payload) = 12
    /\ self.frames_received = 1
    /\ self.bytes_received = 18

(***************************************************************************)
(* can_send_many with lists at and past the frame size limit, on a         *)
(* connected session: SpecOverflow.                                        *)
(***************************************************************************)
MaxOverflowSends == 2

\* 16 messages of 8 bytes followed by two short ones, the last of which is
\* left out although its 6 bytes would fit
OverflowBatches ==
    {[i \in 1..16 |-> CANMessage(291, DataOf(8), 1, TRUE, FALSE)]
        \o <<CANMessage(291, DataOf(1), 1, TRUE, FALSE), CANMessage(0, <<>>, 0, FALSE, FALSE)>>}

\* runs of one message, some within the limit and some past it
OverflowLists ==
    {<<>>} \cup OverflowBatches \cup
    {[i \in 1..k |-> f] : f \in FillMsgs, k \in {MaxFill - 4, MaxFill}}

InitOverflow ==
    /\ self = Connected
    /\ rxq = <<>>
    /\ txq = <<>>
    /\ ret = NoReturn
    /\ history = [closed |-> FALSE]
    /\ ThreadsIdle
    /\ FrameIdle
    /\ CanIdle

\* the state space is kept finite: at most MaxOverflowSends frames after the
\* one connect wrote
SendOverflow ==
    /\ self.frames_sent + self.errors < Connected.frames_sent + MaxOverflowSends
    /\ can_send_many(OverflowLists)

NextOverflow == SendOverflow \/ Disconnect

SpecOverflow == InitOverflow /\ [][NextOverflow]_vars

\* the bytes one message takes in the payload: header, address, the data (at
\* most 15 bytes of it) and checksum
EncodedSize(m) == 6 + (IF Len(m.data) > 15 THEN 15 ELSE Len(m.data))

RECURSIVE SizeBefore(_, _)
SizeBefore(msgs, k) == IF k = 0 THEN 0 ELSE SizeBefore(msgs, k - 1) + EncodedSize(msgs[k])

\* before each of the first k messages the bytes encoded so far plus the fixed
\* budget are within the limit
Fits(msgs, k) ==
    \A i \in 1..k : SizeBefore(msgs, i - 1) + MSG_BUDGET <= FRAME_SIZE_LIMIT

LongestFit(msgs) ==
    CHOOSE k \in 0..Len(msgs) : Fits(msgs, k) /\ (k < Len(msgs) => ~Fits(msgs, k + 1))

\* C20: batch overflow drops a suffix silently. can_send_many puts in the frame
\* exactly the longest prefix of the list such that before each message the
\* bytes encoded so far plus 20 do not exceed 250; no later message is
\* included; the count returned is the length of that prefix; and the error
\* counter does not move for the messages left out.
C20_OverflowDropsSuffix ==
    /\ [](( ret.op = "can_send_many" /\ WroteWhole) =>
             LET k == LongestFit(ret.input)
                 payload == WrittenFrame.frame.payload
             IN  /\ ret.count = k
                 /\ Len(payload) = SizeBefore(ret.input, k)
                 /\ payload = pack_messages(SubSeq(ret.input, 1, k)).data)
    /\ [][(ret'.op = "can_send_many" /\ Whole(txq')) => self'.errors = self.errors]_vars

C20_Witness ==
    /\ ret.op = "can_send_many"
    /\ WroteWhole
    /\ Len(ret.input) = 18
    /\ ret.count = 17
    /\ self.errors = 0

\* a run of 15-byte CAN-FD messages of which 11 are taken
C20_FdWitness ==
    /\ ret.op = "can_send_many"
    /\ WroteWhole
    /\ ret.input[1].fd
    /\ ret.count = 11
    /\ ret.count < Len(ret.input)
    /\ self.errors = 0

\* the same of the packer alone, over the lists of SpecBatch
PackedLongestFit ==
    packed.count >= 0 =>
        /\ packed.count = LongestFit(batch)
        /\ Len(packed.data) = SizeBefore(batch, packed.count)
        /\ packed.data = pack_messages(SubSeq(batch, 1, packed.count)).data

(***************************************************************************)
(* C21..C25, checked under Spec (the session) unless said otherwise.       *)
(***************************************************************************)
\* the operations that are one control transfer, with the request each makes
\* (request type, request, value, index)
ControlRequest ==
    [connect |-> <<64, CMD_RESET, 0, 0>>,
     reset |-> <<64, CMD_RESET, 0, 0>>,
     get_version |-> <<192, CMD_GET_VERSION, 0, 0>>,
     health |-> <<192, CMD_GET_HEALTH, 0, 0>>,
     set_safety_mode |-> <<64, CMD_SET_SAFETY_MODE, NO_OUTPUT, 0>>,
     set_can_speed_kbps |-> <<64, CMD_SET_CAN_SPEED, 0, 500>>,
     send_heartbeat |-> <<64, CMD_HEARTBEAT, 0, 0>>]

ControlOps == DOMAIN ControlRequest

\* the operations whose ret.data is the payload _control_transfer returned
RawControlOps == ControlOps \ {"get_version"}

\* requestType, request, value, index and data length, the last three as two
\* bytes low byte first, then the data
ControlPayload(rq, data) ==
    <<rq[1], rq[2], rq[3] % 256, rq[3] \div 256, rq[4] % 256, rq[4] \div 256,
      Len(data) % 256, Len(data) \div 256>> \o data

\* a control transfer carrying data (no operation of the adapter passes any)
ControlWithData ==
    \A data \in {<<7>>, <<7, 9, 170>>} :
        LET r == control_transfer(open_serial(NewAdapter), <<>>, 64, CMD_SET_CAN_SPEED,
                                  513, 1027, data,
                                  [w |-> "full", arr |-> <<>>, rdx |-> FALSE])
            f == unpack(r.written[1])
        IN  /\ f.ok
            /\ f.frame.frame_type = FRAME_CONTROL
            /\ f.frame.payload = ControlPayload(<<64, CMD_SET_CAN_SPEED, 513, 1027>>, data)

\* C21: _control_transfer sends one CONTROL frame whose payload is the request
\* type, the request, value, index and data length (two bytes each, low byte
\* first) and the data, then reads at most one frame. It returns that frame's
\* payload exactly when the send succeeded and the frame read is well-formed
\* and of type CONTROL; on a failed send, a timeout, a malformed frame or a
\* frame of another type it returns the empty byte sequence, with no further
\* read.
C21_ControlTransfer ==
    /\ [](ControlWithData)
    /\ [](ret.op \in ControlOps =>
             /\ Len(txq) <= 1
             /\ ret.sent <=> WrittenFrame.ok
             /\ WrittenFrame.ok =>
                    /\ WrittenFrame.frame.frame_type = FRAME_CONTROL
                    /\ WrittenFrame.frame.payload = ControlPayload(ControlRequest[ret.op], <<>>)
             /\ ~ret.sent => ret.rx = None
             /\ ret.matched <=> (ret.sent /\ ret.rx # None /\ ret.rx.frame_type = FRAME_CONTROL))
    /\ [](ret.op \in RawControlOps =>
             ret.data = IF ret.sent /\ ret.rx # None /\ ret.rx.frame_type = FRAME_CONTROL
                        THEN ret.rx.payload ELSE <<>>)
    /\ [](ret.op = "get_version" => (ret.text = "Error" <=> (~ret.matched \/ ret.rx.payload = <<>>)))
    /\ [][ret'.op \in ControlOps =>
             /\ self'.frames_sent <= self.frames_sent + 1
             /\ self'.frames_received + self'.errors <= self.frames_received + self.errors + 1
             /\ ~ret'.sent => (/\ self'.frames_received = self.frames_received
                               /\ self'.bytes_received = self.bytes_received
                               /\ ret'.op # "connect" =>
                                      self'.serial_timeout = self.serial_timeout)]_vars

\* a health request answered by a CONTROL frame with the 12-byte payload
C21_Witness ==
    /\ ret.op = "health"
    /\ ret.sent
    /\ ret.rx # None
    /\ ret.rx.frame_type = FRAME_CONTROL
    /\ ret.data = DevicePayload

\* a BULK_IN frame answers a control transfer: the result is empty
C21_WrongTypeWitness ==
    /\ ret.op \in RawControlOps
    /\ ret.rx # None
    /\ ret.rx.frame_type = FRAME_BULK_IN
    /\ ret.rx.payload # <<>>
    /\ ret.data = <<>>

\* the send went through and nothing arrived
C21_TimeoutWitness ==
    /\ ret.op \in RawControlOps
    /\ ret.sent
    /\ ret.starved
    /\ ret.data = <<>>

\* the RESET request as connect writes it with sequence number n
ResetFrame(n) ==
    pack([Frame(FRAME_CONTROL, 0, ControlPayload(<<64, CMD_RESET, 0, 0>>, <<>>), 0)
             EXCEPT !.sequence = n])

C22_WrongTypeWitness ==
    /\ ret.op = "connect"
    /\ ret.rx # None
    /\ ret.rx.frame_type = FRAME_BULK_IN
    /\ ret.ok
    /\ self.connected

\* the RESET is answered by a CONTROL frame
C22_AnsweredWitness ==
    /\ ret.op = "connect"
    /\ ret.matched
    /\ ret.ok
    /\ self.connected

\* the operations that return what one exchange on the open channel received
\* (connect opens a channel of its own, with nothing in its input buffer)
PairedOps == (ControlOps \ {"connect"}) \cup {"can_recv"}

\* the input buffer begins with a whole, valid frame: a response that came in
\* after the operation it answers had given up waiting
LateResponseWaiting(q) ==
    /\ Len(q) >= 6
    /\ Len(q) >= 6 + q[4]
    /\ unpack(SubSeq(q, 1, 6 + q[4])).ok

\* C23: request/response pairing with one caller at a time. What a control
\* transfer or can_recv returns is the response the device produced for that
\* same request: a response that arrives after its own request timed out is
\* never the frame a later request of the same frame type takes as its answer.
C23_ResponsePairing ==
    [][(/\ ret'.op \in PairedOps
        /\ self'.frames_received = self.frames_received + 1
        /\ ret'.matched)
       => ~LateResponseWaiting(rxq)]_vars

\* C24, under SpecReceive: _receive_frame leaves the channel's read timeout as
\* it found it. After every call, whatever its outcome (frame returned, header
\* timeout, bad sync, short payload, checksum failure, exception), the serial
\* channel's timeout is what it was before the call.
C24_TimeoutRestored ==
    [][ret'.op = "_receive_frame" => self'.serial_timeout = self.serial_timeout]_vars

(***************************************************************************)
(* SpecIdle: a session that is connected, used and closed in any order,   *)
(* with _send_frame and _receive_frame called directly as well while it    *)
(* is not connected.                                                       *)
(***************************************************************************)
\* _send_frame(frame) on a session that is not connected
IdleSend == ~self.connected /\ SendFrame

\* _receive_frame(timeout) on a session that is not connected; a channel that
\* is not open delivers nothing
IdleReceive ==
    /\ ~self.connected
    /\ ReceiveFrame
    /\ rxbuf'.data = <<>>

NextIdle ==
    \/ Connect
    \/ Disconnect
    \/ Close
    \/ GetVersion
    \/ SendHeartbeat
    \/ CanSendMany
    \/ CanRecv
    \/ IdleSend
    \/ IdleReceive

SpecIdle == InitSend /\ [][NextIdle]_vars

\* the operations other than connect, disconnect and close
IdleOps ==
    (ControlOps \ {"connect"}) \cup
    {"can_send_many", "can_recv", "get_stats", "_send_frame", "_receive_frame"}

\* C25: operations on a session that is not connected (before connect, after
\* a failed connect, after close) touch nothing. _send_frame returns False and
\* _receive_frame None without writing to or reading from the channel,
\* can_send_many returns 0 and can_recv the empty list, and the sequence
\* counter and the five statistics counters are as they were.
C25_NotConnectedTouchesNothing ==
    [][(~self.connected /\ ret'.op \in IdleOps) =>
         /\ self'.sequence_tx = self.sequence_tx
         /\ Counters(self') = Counters(self)
         /\ self' = self
         /\ txq' = <<>>
         /\ rxq' = rxq
         /\ ~ret'.sent
         /\ ret'.rx = None
         /\ ret'.count = 0
         /\ ret'.messages = <<>>
         /\ ret'.data = <<>>
         /\ ret'.op = "_send_frame" => ~ret'.ok]_vars

\* can_recv on a session that was connected, used and closed
C25_Witness ==
    /\ ret.op = "can_recv"
    /\ ~self.connected
    /\ history.closed
    /\ self.serial = "closed"
    /\ self.frames_sent >= 1
    /\ ret.messages = <<>>
    /\ txq = <<>>

\* _send_frame after a connect that failed on a new session
C25_NeverOpenedWitness ==
    /\ ret.op = "_send_frame"
    /\ self = NewAdapter
    /\ ~ret.ok

\* _receive_frame and can_send_many on a closed session
C25_ReceiveWitness ==
    /\ ret.op = "_receive_frame"
    /\ ~self.connected
    /\ history.closed
    /\ ret.rx = None

C25_SendManyWitness ==
    /\ ret.op = "can_send_many"
    /\ ~self.connected
    /\ history.closed
    /\ ret.input # <<>>
    /\ ret.count = 0

=============================================================================
